---- MODULE Spec2Model ----
(***************************************************************************)
(* A model of the Liar's Poker rule engine: liars/number.py (unique        *)
(* numbers and digit counts), liars/action.py (the Action dataclass and    *)
(* the raise rule) and liars/game.py (Game.play and Game.play_many).       *)
(*                                                                         *)
(* Python values are modelled as follows.                                  *)
(*   Optional[T]   None is <<>>, a present value v is <<v>>                *)
(*   str of digits a sequence of digits 0..9                               *)
(*   Action        a record with the five dataclass fields                 *)
(*   game_state    a sequence of records [idx, action]; the elapsed time   *)
(*                 of a move is a measurement no rule reads, and is left   *)
(*                 out of the record                                       *)
(*   exceptions    pc = "raised" with error naming the raise site          *)
(* The players are the environment: make_move builds its Action through    *)
(* make_bet / make_exact / make_bullshit with arguments of its choice.     *)
(***************************************************************************)
EXTENDS Integers, Sequences, FiniteSets, TLC

\* number.py: NUM_DIGITS
NUM_DIGITS == 8

\* Bounds of the model.
MaxPlayers == 3
MaxCount == 2
MaxMoves == 3
MaxRounds == 2
MaxGenN == 3

\* The outcomes of np.random.randint(0, 10**8) that the model enumerates.
NumberPool == {7, 12345678, 12345689, 10345677}
\* The digits a player puts in a bet (besides the ill-formed ones).
BetDigits == {0, 7}
\* The values of NUM_DIGITS of the reduced builds of SpecGen.
GenWidths == {0, 1}

None == <<>>
Some(v) == <<v>>
Val(o) == o[1]

VARIABLES
    n,                \* len(self.players)
    num_digits,       \* the value of number.NUM_DIGITS
    gen_pos,          \* self.player_generator: index the cycle yields next
    pc,               \* control location
    call,             \* the entry point in progress
    n_rounds,         \* play_many: n_rounds
    winner_idxs,      \* play_many: winner_idxs
    last_winner_idx,  \* play_many: last_winner_idx
    first_move,       \* play: first_move
    first_idx,        \* play: first_idx
    gen_n,            \* get_random_numbers: n
    gen_set,          \* get_random_numbers: numbers (the set)
    numbers,          \* play: numbers (the list)
    total_counts,     \* play: total_counts
    game_state,       \* play: game_state
    prev_idx,         \* play: prev_idx
    prev_action,      \* play: prev_action
    winner_idx,       \* play: winner_idx
    started,          \* the start_game calls made, in order
    calls,            \* the players asked to make_move, in order
    ended,            \* the end_game calls made, in order
    ret,              \* the value returned to the caller
    action_args,      \* Action(...) called by the caller: its arguments
    error             \* the exception propagated to the caller

vars == <<n, num_digits, gen_pos, pc, call, n_rounds, winner_idxs,
          last_winner_idx, first_move, first_idx, gen_n, gen_set, numbers,
          total_counts, game_state, prev_idx, prev_action, winner_idx,
          started, calls, ended, ret, action_args, error>>

----------------------------------------------------------------------------
(* liars/number.py *)

RECURSIVE DecimalRepr(_)
DecimalRepr(x) ==
    IF x < 10 THEN <<x>> ELSE Append(DecimalRepr(x \div 10), x % 10)

Zeros(k) == [i \in 1..k |-> 0]

\* Mutant of to_str: the number is formatted without the zero padding.
to_str_NoPad(number) == DecimalRepr(number)

\* format(number, f"0{NUM_DIGITS}d"): zero-padded on the left to the width,
\* never truncated.
to_str(number) ==
    LET s == DecimalRepr(number)
    IN  IF Len(s) >= num_digits THEN s ELSE Zeros(num_digits - Len(s)) \o s

\* counts is a uint8 array: every increment wraps at 256.
RECURSIVE CountDigits(_, _)
CountDigits(s, counts) ==
    IF s = <<>> THEN counts
    ELSE CountDigits(Tail(s),
                     [counts EXCEPT ![Head(s)] = (@ + 1) % 256])

to_counts(number) == CountDigits(to_str(number), [d \in 0..9 |-> 0])

\* np.sum([to_counts(number) for number in numbers], axis=0): the sum is
\* taken in the platform's 64-bit unsigned integer, which no sum of the
\* model approaches.
RECURSIVE SumCounts(_)
SumCounts(nums) ==
    IF nums = <<>> THEN [d \in 0..9 |-> 0]
    ELSE LET rest == SumCounts(Tail(nums))
             c    == to_counts(Head(nums))
         IN  [d \in 0..9 |-> c[d] + rest[d]]

RECURSIVE Pow10(_)
Pow10(k) == IF k = 0 THEN 1 ELSE 10 * Pow10(k - 1)

\* The number of values of range(0, 10**NUM_DIGITS).
RangeSize == Pow10(num_digits)

\* get_random_number: np.random.randint(0, 10**NUM_DIGITS).  At the full
\* width the draws are the values of NumberPool; a reduced width is
\* enumerated whole.
get_random_number ==
    IF num_digits = NUM_DIGITS THEN NumberPool ELSE 0..(RangeSize - 1)

\* list(numbers): the elements of the set in an order the hash table fixes.
ListsOf(S) ==
    {s \in [1..Cardinality(S) -> S] : \A i, j \in 1..Cardinality(S) :
                                          s[i] = s[j] => i = j}

----------------------------------------------------------------------------
(* liars/action.py *)

Action(is_exact, is_bullshit, is_bet, count, digit) ==
    [is_exact |-> is_exact, is_bullshit |-> is_bullshit, is_bet |-> is_bet,
     count |-> count, digit |-> digit]

BoolInt(b) == IF b THEN 1 ELSE 0

\* Mutant of PostInit: the count is tested with < 0, and a count of 0 passes.
PostInit_ZeroCount(a) ==
    IF BoolInt(a.is_exact) + BoolInt(a.is_bullshit) + BoolInt(a.is_bet) # 1
    THEN "ValueError"
    ELSE IF a.is_bet
    THEN IF a.count = None THEN "ValueError"
         ELSE IF a.digit = None THEN "ValueError"
         ELSE IF Val(a.count) < 0 THEN "ValueError"
         ELSE IF ~(0 <= Val(a.digit) /\ Val(a.digit) <= 9) THEN "ValueError"
         ELSE "ok"
    ELSE "ok"

\* Action.__post_init__: "ok", or the error of the first check that fails.
PostInit(a) ==
    IF BoolInt(a.is_exact) + BoolInt(a.is_bullshit) + BoolInt(a.is_bet) # 1
    THEN "ValueError"
    ELSE IF a.is_bet
    THEN IF a.count = None THEN "ValueError"
         ELSE IF a.digit = None THEN "ValueError"
         ELSE IF Val(a.count) <= 0 THEN "ValueError"
         ELSE IF ~(0 <= Val(a.digit) /\ Val(a.digit) <= 9) THEN "ValueError"
         ELSE "ok"
    ELSE "ok"

make_bet(count, digit) == Action(FALSE, FALSE, TRUE, count, digit)
make_bullshit == Action(FALSE, TRUE, FALSE, None, None)
make_exact == Action(TRUE, FALSE, FALSE, None, None)

\* Mutant of IsRaise: digit and count must both increase.
IsRaise_Both(bet, previous_bet) ==
    /\ Val(bet.digit) > Val(previous_bet.digit)
    /\ Val(bet.count) > Val(previous_bet.count)

\* The raise test of ensure_valid_raise.
IsRaise(bet, previous_bet) ==
    \/ Val(bet.digit) > Val(previous_bet.digit)
    \/ Val(bet.count) > Val(previous_bet.count)

\* Mutant of ensure_valid_raise: a bet that does not raise is let through.
ensure_valid_raise_Lenient(bet, previous_bet) ==
    IF previous_bet = None THEN "ok"
    ELSE IF ~Val(previous_bet).is_bet THEN "ActionAfterTerminal"
    ELSE "ok"

\* ensure_valid_raise(bet, previous_bet): "ok", or the error it raises.
ensure_valid_raise(bet, previous_bet) ==
    IF previous_bet = None THEN "ok"
    ELSE IF ~Val(previous_bet).is_bet THEN "ActionAfterTerminal"
    ELSE IF ~IsRaise(bet, Val(previous_bet)) THEN "InvalidRaise"
    ELSE "ok"

\* The Python exception class of each error.
ExceptionType(e) ==
    IF e = "FirstMoveNotBet" THEN "RuntimeError" ELSE "ValueError"

----------------------------------------------------------------------------
(* liars/game.py *)

\* Mutant of CycleNext: the iterator is advanced twice per turn.
CycleNext_Skip(pos) == (pos + 2) % n

\* next(self.player_generator) on itertools.cycle(enumerate(self.players)):
\* the position after the one yielded.
CycleNext(pos) == (pos + 1) % n

\* Mutant of ExactWinner: an overstated bet also counts as exactly right.
ExactWinner_AtLeast(p_idx, p_action, counts) ==
    IF Val(p_action.count) >= counts[Val(p_action.digit)] THEN -1 ELSE p_idx

\* Mutant of ExactWinner: a wrong Exact call is won by the next player
\* instead of the previous bettor.
ExactWinner_Next(p_idx, p_action, counts) ==
    IF Val(p_action.count) = counts[Val(p_action.digit)]
    THEN -1 ELSE (p_idx + 1) % n

\* Exact: the winner_idx assigned.
ExactWinner(p_idx, p_action, counts) ==
    IF Val(p_action.count) = counts[Val(p_action.digit)] THEN -1 ELSE p_idx

\* Mutant of BullshitWinner: a bet that is exactly right counts as
\* overstated.
BullshitWinner_AtLeast(idx, p_idx, p_action, counts) ==
    IF Val(p_action.count) >= counts[Val(p_action.digit)] THEN idx ELSE p_idx

\* Bullshit: the winner_idx assigned.
BullshitWinner(idx, p_idx, p_action, counts) ==
    IF Val(p_action.count) > counts[Val(p_action.digit)] THEN idx ELSE p_idx

\* Mutant of ProcessAction: a right Exact call leaves winner_idx unset, and
\* the game loop goes on.
ProcessAction_TieUnresolved(idx, action, p_idx, p_action, counts) ==
    IF action.is_bet
    THEN LET e == ensure_valid_raise(action, p_action)
         IN  IF e # "ok"
             THEN [prev_idx |-> p_idx, prev_action |-> p_action,
                   winner_idx |-> None, error |-> Some(e)]
             ELSE [prev_idx |-> Some(idx), prev_action |-> Some(action),
                   winner_idx |-> None, error |-> None]
    ELSE IF p_action = None
    THEN [prev_idx |-> p_idx, prev_action |-> p_action,
          winner_idx |-> None, error |-> Some("FirstMoveNotBet")]
    ELSE IF action.is_exact
    THEN [prev_idx |-> p_idx, prev_action |-> p_action,
          winner_idx |->
              IF ExactWinner(Val(p_idx), Val(p_action), counts) = -1
              THEN None
              ELSE Some(ExactWinner(Val(p_idx), Val(p_action), counts)),
          error |-> None]
    ELSE [prev_idx |-> p_idx, prev_action |-> p_action,
          winner_idx |->
              Some(BullshitWinner(idx, Val(p_idx), Val(p_action), counts)),
          error |-> None]

\* Mutant of ProcessAction: a terminal claim made as the first move is kept
\* as the previous action, and the round goes on.
ProcessAction_TerminalRecorded(idx, action, p_idx, p_action, counts) ==
    IF action.is_bet
    THEN LET e == ensure_valid_raise(action, p_action)
         IN  IF e # "ok"
             THEN [prev_idx |-> p_idx, prev_action |-> p_action,
                   winner_idx |-> None, error |-> Some(e)]
             ELSE [prev_idx |-> Some(idx), prev_action |-> Some(action),
                   winner_idx |-> None, error |-> None]
    ELSE IF p_action = None
    THEN [prev_idx |-> Some(idx), prev_action |-> Some(action),
          winner_idx |-> None, error |-> None]
    ELSE IF action.is_exact
    THEN [prev_idx |-> p_idx, prev_action |-> p_action,
          winner_idx |-> Some(ExactWinner(Val(p_idx), Val(p_action), counts)),
          error |-> None]
    ELSE [prev_idx |-> p_idx, prev_action |-> p_action,
          winner_idx |->
              Some(BullshitWinner(idx, Val(p_idx), Val(p_action), counts)),
          error |-> None]

\* Mutant of ProcessAction: the test for a terminal claim as first move is
\* missing, and the claim is resolved in favour of the player making it.
ProcessAction_FirstMoveUnchecked(idx, action, p_idx, p_action, counts) ==
    IF action.is_bet
    THEN LET e == ensure_valid_raise(action, p_action)
         IN  IF e # "ok"
             THEN [prev_idx |-> p_idx, prev_action |-> p_action,
                   winner_idx |-> None, error |-> Some(e)]
             ELSE [prev_idx |-> Some(idx), prev_action |-> Some(action),
                   winner_idx |-> None, error |-> None]
    ELSE IF p_action = None
    THEN [prev_idx |-> p_idx, prev_action |-> p_action,
          winner_idx |-> Some(idx), error |-> None]
    ELSE IF action.is_exact
    THEN [prev_idx |-> p_idx, prev_action |-> p_action,
          winner_idx |-> Some(ExactWinner(Val(p_idx), Val(p_action), counts)),
          error |-> None]
    ELSE [prev_idx |-> p_idx, prev_action |-> p_action,
          winner_idx |->
              Some(BullshitWinner(idx, Val(p_idx), Val(p_action), counts)),
          error |-> None]

\* "Process the action": the locals after the branch taken, with the error
\* raised, if any.
ProcessAction(idx, action, p_idx, p_action, counts) ==
    IF action.is_bet
    THEN LET e == ensure_valid_raise(action, p_action)
         IN  IF e # "ok"
             THEN [prev_idx |-> p_idx, prev_action |-> p_action,
                   winner_idx |-> None, error |-> Some(e)]
             ELSE [prev_idx |-> Some(idx), prev_action |-> Some(action),
                   winner_idx |-> None, error |-> None]
    ELSE IF p_action = None
    THEN [prev_idx |-> p_idx, prev_action |-> p_action,
          winner_idx |-> None, error |-> Some("FirstMoveNotBet")]
    ELSE IF action.is_exact
    THEN [prev_idx |-> p_idx, prev_action |-> p_action,
          winner_idx |-> Some(ExactWinner(Val(p_idx), Val(p_action), counts)),
          error |-> None]
    ELSE [prev_idx |-> p_idx, prev_action |-> p_action,
          winner_idx |->
              Some(BullshitWinner(idx, Val(p_idx), Val(p_action), counts)),
          error |-> None]

\* Mutant of Result: the tie is not told apart, and every player loses.
Result_NoTie(w_idx, idx) == IF w_idx = idx THEN 1 ELSE 0

\* The result end_game gives player idx.
Result(w_idx, idx) ==
    IF w_idx = -1 THEN -1 ELSE IF w_idx = idx THEN 1 ELSE 0

\* Mutant of LastWinner: the winner is tested for truth, so that player 0
\* is not carried over.
LastWinner_Truthy(w_idx) == IF w_idx > 0 THEN Some(w_idx) ELSE None

\* last_winner_idx after a round of play_many.
LastWinner(w_idx) == IF w_idx # -1 THEN Some(w_idx) ELSE None

\* The arguments a player may give make_bet.
ArgCounts == {None} \cup {Some(c) : c \in 0..MaxCount}
ArgDigits == {None} \cup {Some(d) : d \in BetDigits \cup {-1, 10}}

\* What make_move may construct.
PlayerMoves ==
    {make_bet(c, d) : c \in ArgCounts, d \in ArgDigits}
        \cup {make_exact, make_bullshit}

\* Mutant of ResetLocals: game_state lives on from one round to the next.
ResetLocals_KeepLog ==
    /\ first_idx' = None
    /\ gen_set' = {}
    /\ numbers' = <<>>
    /\ total_counts' = <<>>
    /\ game_state' = game_state
    /\ prev_idx' = None
    /\ prev_action' = None
    /\ winner_idx' = None
    /\ started' = <<>>
    /\ calls' = <<>>
    /\ ended' = <<>>

\* The locals of play and of get_random_numbers before they are assigned.
ResetLocals ==
    /\ first_idx' = None
    /\ gen_set' = {}
    /\ numbers' = <<>>
    /\ total_counts' = <<>>
    /\ game_state' = <<>>
    /\ prev_idx' = None
    /\ prev_action' = None
    /\ winner_idx' = None
    /\ started' = <<>>
    /\ calls' = <<>>
    /\ ended' = <<>>

AtRest == pc \in {"idle", "returned", "raised"}

\* The Game after construction (__post_init__ creates the cycle), no call
\* made yet.
InitGame ==
    /\ gen_pos = 0
    /\ pc = "idle"
    /\ call = "none"
    /\ n_rounds = 0
    /\ winner_idxs = <<>>
    /\ last_winner_idx = None
    /\ first_move = None
    /\ first_idx = None
    /\ gen_n = 0
    /\ gen_set = {}
    /\ numbers = <<>>
    /\ total_counts = <<>>
    /\ game_state = <<>>
    /\ prev_idx = None
    /\ prev_action = None
    /\ winner_idx = None
    /\ started = <<>>
    /\ calls = <<>>
    /\ ended = <<>>
    /\ ret = None
    /\ action_args = None
    /\ error = None

Init ==
    /\ n \in 1..MaxPlayers
    /\ num_digits = NUM_DIGITS
    /\ InitGame

\* game.play(first_move) called on the Game: up to the call of
\* get_random_numbers.
CallPlay(fm) ==
    /\ AtRest
    /\ call' = "play"
    /\ first_move' = fm
    /\ gen_n' = n
    /\ ResetLocals
    /\ n_rounds' = 0
    /\ winner_idxs' = <<>>
    /\ last_winner_idx' = None
    /\ ret' = None
    /\ error' = None
    /\ pc' = "numbers"
    /\ action_args' = None
    /\ UNCHANGED <<n, num_digits, gen_pos>>

\* game.play_many(n_rounds) called on the Game: up to the for loop.
CallPlayMany(k) ==
    /\ AtRest
    /\ call' = "play_many"
    /\ n_rounds' = k
    /\ winner_idxs' = <<>>
    /\ last_winner_idx' = None
    /\ first_move' = None
    /\ gen_n' = 0
    /\ ResetLocals
    /\ ret' = None
    /\ error' = None
    /\ pc' = "play_many"
    /\ action_args' = None
    /\ UNCHANGED <<n, num_digits, gen_pos>>

\* play_many: the head of the for loop, calling play for the next round or
\* returning winner_idxs.
PlayManyLoop ==
    /\ pc = "play_many"
    /\ IF Len(winner_idxs) < n_rounds
       THEN /\ first_move' = last_winner_idx
            /\ gen_n' = n
            /\ ResetLocals
            /\ pc' = "numbers"
            /\ ret' = ret
       ELSE /\ ret' = Some(winner_idxs)
            /\ pc' = "returned"
            /\ UNCHANGED <<first_move, first_idx, gen_n, gen_set, numbers,
                           total_counts, game_state, prev_idx, prev_action,
                           winner_idx, started, calls, ended>>
    /\ UNCHANGED <<n, num_digits, gen_pos, call, n_rounds, winner_idxs,
                   last_winner_idx, action_args, error>>

\* Mutant of GetRandomNumbersDraw: the loop tests len(numbers) <= n and
\* runs once too often.
GetRandomNumbersDraw_OneMore ==
    /\ pc = "numbers"
    /\ Cardinality(gen_set) <= gen_n
    /\ \E x \in get_random_number : gen_set' = gen_set \cup {x}
    /\ UNCHANGED <<action_args, n, num_digits, gen_pos, pc, call, n_rounds, winner_idxs,
                   last_winner_idx, first_move, first_idx, gen_n, numbers,
                   total_counts, game_state, prev_idx, prev_action,
                   winner_idx, started, calls, ended, ret, error>>

\* get_random_numbers: one iteration of the while loop.
GetRandomNumbersDraw ==
    /\ pc = "numbers"
    /\ Cardinality(gen_set) < gen_n
    /\ \E x \in get_random_number : gen_set' = gen_set \cup {x}
    /\ UNCHANGED <<action_args, n, num_digits, gen_pos, pc, call, n_rounds, winner_idxs,
                   last_winner_idx, first_move, first_idx, gen_n, numbers,
                   total_counts, game_state, prev_idx, prev_action,
                   winner_idx, started, calls, ended, ret, error>>

\* get_random_numbers: the loop ends and list(numbers) is returned.
GetRandomNumbersReturn ==
    /\ pc = "numbers"
    /\ ~(Cardinality(gen_set) < gen_n)
    /\ \E l \in ListsOf(gen_set) :
          IF call = "get_random_numbers"
          THEN /\ ret' = Some(l)
               /\ pc' = "returned"
               /\ numbers' = numbers
          ELSE /\ numbers' = l
               /\ pc' = "start"
               /\ ret' = ret
    /\ UNCHANGED <<action_args, n, num_digits, gen_pos, call, n_rounds, winner_idxs,
                   last_winner_idx, first_move, first_idx, gen_n, gen_set,
                   total_counts, game_state, prev_idx, prev_action,
                   winner_idx, started, calls, ended, error>>

\* play: every player's start_game, then the choice of first_idx.
StartGames ==
    /\ pc = "start"
    /\ started' = [i \in 1..n |-> [number |-> numbers[i], player_idx |-> i - 1,
                                   n_players |-> n]]
    /\ IF first_move # None
       THEN first_idx' = first_move
       ELSE \E r \in 0..(n - 1) : first_idx' = Some(r)
    /\ pc' = "ff"
    /\ UNCHANGED <<action_args, n, num_digits, gen_pos, call, n_rounds, winner_idxs,
                   last_winner_idx, first_move, gen_n, gen_set, numbers,
                   total_counts, game_state, prev_idx, prev_action,
                   winner_idx, calls, ended, ret, error>>

\* Mutant of FastForward: the generator is not cycled to first_idx, and the
\* game loop starts where the iterator stands.
FastForward_Missing ==
    /\ pc = "ff"
    /\ total_counts' = SumCounts(numbers)
    /\ pc' = "move"
    /\ UNCHANGED <<action_args, n, num_digits, gen_pos, call, n_rounds,
                   winner_idxs, last_winner_idx, first_move, first_idx,
                   gen_n, gen_set, numbers, game_state, prev_idx,
                   prev_action, winner_idx, started, calls, ended, ret,
                   error>>

\* play: one iteration of the loop that cycles the generator to first_idx;
\* on the break, total_counts and the locals of the game loop.
FastForward ==
    /\ pc = "ff"
    /\ gen_pos' = CycleNext(gen_pos)
    /\ IF ((gen_pos + 1) % n) = Val(first_idx)
       THEN /\ total_counts' = SumCounts(numbers)
            /\ pc' = "move"
       ELSE UNCHANGED <<total_counts, pc>>
    /\ UNCHANGED <<action_args, n, num_digits, call, n_rounds, winner_idxs,
                   last_winner_idx, first_move, first_idx, gen_n, gen_set,
                   numbers, game_state, prev_idx, prev_action, winner_idx,
                   started, calls, ended, ret, error>>

\* play: one iteration of the game loop: the next player's make_move, the
\* append to game_state and the processing of the action.
MakeMove ==
    /\ pc = "move"
    /\ Len(game_state) < MaxMoves
    /\ gen_pos' = CycleNext(gen_pos)
    /\ calls' = Append(calls, gen_pos)
    /\ \E action \in PlayerMoves :
          IF PostInit(action) # "ok"
          THEN /\ error' = Some("InvalidClaim")
               /\ pc' = "raised"
               /\ UNCHANGED <<game_state, prev_idx, prev_action, winner_idx>>
          ELSE LET r == ProcessAction(gen_pos, action, prev_idx, prev_action,
                                      total_counts)
               IN  /\ game_state' = Append(game_state,
                                           [idx |-> gen_pos, action |-> action])
                   /\ prev_idx' = r.prev_idx
                   /\ prev_action' = r.prev_action
                   /\ winner_idx' = r.winner_idx
                   /\ error' = r.error
                   /\ pc' = IF r.error # None THEN "raised"
                            ELSE IF r.winner_idx # None THEN "notify"
                            ELSE "move"
    /\ UNCHANGED <<n, num_digits, call, n_rounds, winner_idxs,
                   last_winner_idx, first_move, first_idx, gen_n, gen_set,
                   numbers, total_counts, started, ended, ret,
                   action_args>>

\* Mutant of EndGames: the players are handed the log as it stood before
\* the terminal claim.
EndGames_LogWithoutTerminal ==
    /\ pc = "notify"
    /\ ended' = [i \in 1..n |->
                     [player_idx |-> i - 1,
                      result |-> Result(Val(winner_idx), i - 1),
                      state |-> SubSeq(game_state, 1, Len(game_state) - 1),
                      numbers |-> numbers]]
    /\ pc' = "play_ret"
    /\ UNCHANGED <<action_args, n, num_digits, gen_pos, call, n_rounds,
                   winner_idxs, last_winner_idx, first_move, first_idx,
                   gen_n, gen_set, numbers, total_counts, game_state,
                   prev_idx, prev_action, winner_idx, started, calls, ret,
                   error>>

\* play: every player's end_game with its result.
EndGames ==
    /\ pc = "notify"
    /\ ended' = [i \in 1..n |-> [player_idx |-> i - 1,
                                 result |-> Result(Val(winner_idx), i - 1),
                                 state |-> game_state,
                                 numbers |-> numbers]]
    /\ pc' = "play_ret"
    /\ UNCHANGED <<action_args, n, num_digits, gen_pos, call, n_rounds, winner_idxs,
                   last_winner_idx, first_move, first_idx, gen_n, gen_set,
                   numbers, total_counts, game_state, prev_idx, prev_action,
                   winner_idx, started, calls, ret, error>>

\* play returns winner_idx: to the caller, or into the loop of play_many.
PlayReturn ==
    /\ pc = "play_ret"
    /\ IF call = "play"
       THEN /\ ret' = winner_idx
            /\ pc' = "returned"
            /\ UNCHANGED <<winner_idxs, last_winner_idx>>
       ELSE /\ winner_idxs' = Append(winner_idxs, Val(winner_idx))
            /\ last_winner_idx' = LastWinner(Val(winner_idx))
            /\ pc' = "play_many"
            /\ ret' = ret
    /\ UNCHANGED <<action_args, n, num_digits, gen_pos, call, n_rounds, first_move,
                   first_idx, gen_n, gen_set, numbers, total_counts,
                   game_state, prev_idx, prev_action, winner_idx, started,
                   calls, ended, error>>

\* The first_move arguments of play: absent, a player, or just off the range.
FirstMoves == {None} \cup {Some(i) : i \in -1..n}

Next ==
    \/ \E fm \in FirstMoves : CallPlay(fm)
    \/ \E k \in 0..MaxRounds : CallPlayMany(k)
    \/ PlayManyLoop
    \/ GetRandomNumbersDraw
    \/ GetRandomNumbersReturn
    \/ StartGames
    \/ FastForward
    \/ MakeMove
    \/ EndGames
    \/ PlayReturn

Spec == Init /\ [][Next]_vars

\* The game with the loop of play that cycles the generator kept running:
\* a thread inside the while loop of game.py:88-91 goes on taking
\* iterations as long as the loop has not been left.
SpecFair == Spec /\ WF_vars(FastForward)

----------------------------------------------------------------------------
(* get_random_numbers called on its own, in builds of a reduced NUM_DIGITS *)

\* get_random_numbers(n) called: up to the while loop.
CallGetRandomNumbers(k) ==
    /\ AtRest
    /\ call' = "get_random_numbers"
    /\ gen_n' = k
    /\ ResetLocals
    /\ ret' = None
    /\ error' = None
    /\ pc' = "numbers"
    /\ action_args' = None
    /\ UNCHANGED <<n, num_digits, gen_pos, n_rounds, winner_idxs,
                   last_winner_idx, first_move>>

InitGen ==
    /\ n = 1
    /\ num_digits \in GenWidths
    /\ InitGame

NextGen ==
    \/ \E k \in 0..MaxGenN : CallGetRandomNumbers(k)
    \/ GetRandomNumbersDraw
    \/ GetRandomNumbersReturn

SpecGen == InitGen /\ [][NextGen]_vars

----------------------------------------------------------------------------
(* The game, and Action constructed directly by the caller *)

\* The arguments the caller may give Action(...).
RawActions ==
    {Action(e, b, t, c, d) : e \in BOOLEAN, b \in BOOLEAN, t \in BOOLEAN,
                             c \in ArgCounts, d \in ArgDigits}

\* Action(is_exact, is_bullshit, is_bet, count, digit): the dataclass is
\* built and __post_init__ validates it.  The construction reads nothing of
\* the Game, and the caller is taken to make it before using the Game.
ConstructAction(a) ==
    /\ AtRest
    /\ call \in {"none", "Action"}
    /\ call' = "Action"
    /\ action_args' = Some(a)
    /\ ResetLocals
    /\ IF PostInit(a) = "ok"
       THEN /\ ret' = Some(a)
            /\ error' = None
            /\ pc' = "returned"
       ELSE /\ ret' = None
            /\ error' = Some("InvalidClaim")
            /\ pc' = "raised"
    /\ UNCHANGED <<n, num_digits, gen_pos, n_rounds, winner_idxs,
                   last_winner_idx, first_move, gen_n>>

NextAction ==
    \/ Next
    \/ \E a \in RawActions : ConstructAction(a)

SpecAction == Init /\ [][NextAction]_vars

----------------------------------------------------------------------------
(* What the properties below read off a state *)

\* The last entry of the move log, and the entry before it.
LastMove == game_state[Len(game_state)]
PrevMove == game_state[Len(game_state) - 1]

\* Occurrences of digit d in the zero-padded numbers of all players, counted
\* position by position.
RECURSIVE Occurrences(_, _)
Occurrences(nums, d) ==
    IF nums = <<>> THEN 0
    ELSE LET s == to_str(Head(nums))
         IN  Cardinality({i \in 1..Len(s) : s[i] = d})
                 + Occurrences(Tail(nums), d)

\* The last bet's count and the true count of its digit, in a round whose
\* log ends with a terminal claim after a bet.
BetCount == Val(PrevMove.action.count)
Actual == Occurrences(numbers, Val(PrevMove.action.digit))

\* The log ends with a terminal claim made after at least one bet.
TerminalAfterBet ==
    /\ Len(game_state) >= 2
    /\ ~LastMove.action.is_bet
    /\ PrevMove.action.is_bet

\* A round of play is in progress or has just ended (its locals are live).
InRound == pc \in {"numbers", "start", "ff", "move", "notify", "play_ret",
                   "raised"}

\* The rule of the spec for a raise from (c1, d1) to (c2, d2).
RaiseRule(c2, d2, c1, d1) == d2 > d1 \/ c2 > c1

BetPairIsRaise(k) ==
    RaiseRule(Val(game_state[k].action.count), Val(game_state[k].action.digit),
              Val(game_state[k - 1].action.count),
              Val(game_state[k - 1].action.digit))

----------------------------------------------------------------------------
(* Claims *)

\* C1: a Bullshit call after at least one bet resolves the round: the
\* challenger (the current mover) wins if the previous bet's count exceeds
\* the actual count of its digit, and the previous bettor wins otherwise.
C1_BullshitResolution ==
    (TerminalAfterBet /\ LastMove.action.is_bullshit) =>
        /\ winner_idx # None
        /\ error = None
        /\ IF BetCount > Actual
           THEN Val(winner_idx) = LastMove.idx
           ELSE Val(winner_idx) = PrevMove.idx

\* C1 witness: three players, two bets, then a Bullshit call on an
\* overstated bet, won by the challenger, who is not the previous bettor.
C1_Witness ==
    /\ n = 3
    /\ Len(game_state) = 3
    /\ LastMove.action.is_bullshit
    /\ winner_idx # None
    /\ BetCount > Actual
    /\ Val(winner_idx) = LastMove.idx
    /\ LastMove.idx # PrevMove.idx

\* C2: an Exact call after at least one bet resolves the round: a tie
\* (winner index -1) if the previous bet's count equals the actual count;
\* otherwise the previous bettor wins and every other player loses.
C2_ExactResolution ==
    (TerminalAfterBet /\ LastMove.action.is_exact) =>
        /\ winner_idx # None
        /\ error = None
        /\ IF BetCount = Actual
           THEN /\ Val(winner_idx) = -1
                /\ \A i \in 1..Len(ended) : ended[i].result = -1
           ELSE /\ Val(winner_idx) = PrevMove.idx
                /\ \A i \in 1..Len(ended) :
                      ended[i].result = IF i - 1 = PrevMove.idx THEN 1 ELSE 0

\* C2 witness: an Exact call on a bet that is exactly right, every player
\* notified of the tie.
C2_Witness ==
    /\ n = 3
    /\ TerminalAfterBet
    /\ LastMove.action.is_exact
    /\ BetCount = Actual
    /\ Len(ended) = 3
    /\ winner_idx = Some(-1)

\* C3 as stated: a wrong Exact call is won by the caller and lost by the
\* previous bettor.
C3_ExactWrongCallerWins ==
    (TerminalAfterBet /\ LastMove.action.is_exact /\ BetCount # Actual) =>
        /\ winner_idx = Some(LastMove.idx)
        /\ PrevMove.idx # LastMove.idx
        /\ \A i \in 1..Len(ended) :
              /\ (i - 1 = LastMove.idx => ended[i].result = 1)
              /\ (i - 1 = PrevMove.idx => ended[i].result = 0)

\* C3 amended: a wrong Exact call is won by the previous bettor; the caller
\* loses, unless the caller is the previous bettor (a game of one player).
C3_ExactWrongPrevBettorWins ==
    (TerminalAfterBet /\ LastMove.action.is_exact /\ BetCount # Actual) =>
        /\ winner_idx = Some(PrevMove.idx)
        /\ (PrevMove.idx = LastMove.idx) <=> (n = 1)
        /\ \A i \in 1..Len(ended) :
              /\ (i - 1 = PrevMove.idx => ended[i].result = 1)
              /\ (i - 1 = LastMove.idx /\ n > 1 => ended[i].result = 0)

\* C3 witness: a wrong Exact call (the bet overstates), players notified,
\* the caller not being the previous bettor.
C3_Witness ==
    /\ n = 2
    /\ TerminalAfterBet
    /\ LastMove.action.is_exact
    /\ BetCount > Actual
    /\ Len(ended) = 2
    /\ ended[PrevMove.idx + 1].result = 1
    /\ ended[LastMove.idx + 1].result = 0

\* C4: the results given to end_game are one Win with a Loss for every
\* other player, or a Tie for every player; the Win goes to the player whose
\* index play returns.
C4_OneWinnerOrAllTie ==
    (ended # <<>>) =>
        /\ Len(ended) = n
        /\ \A i \in 1..n : ended[i].player_idx = i - 1
        /\ \/ /\ \A i \in 1..n : ended[i].result = -1
              /\ winner_idx = Some(-1)
           \/ \E w \in 1..n :
                 /\ ended[w].result = 1
                 /\ \A i \in (1..n) \ {w} : ended[i].result = 0
                 /\ winner_idx = Some(w - 1)
        /\ (call = "play" /\ pc = "returned") => ret = winner_idx
        /\ (call = "play_many" /\ pc = "play_many") =>
               winner_idxs[Len(winner_idxs)] = Val(winner_idx)

\* C4 witness: play has returned the index of the one winner among three
\* players.
C4_Witness ==
    /\ n = 3
    /\ call = "play"
    /\ pc = "returned"
    /\ ret = Some(2)
    /\ ended # <<>>
    /\ ended[3].result = 1
    /\ ended[1].result = 0

\* C5: a bet made after a previous bet is accepted iff its digit or its
\* count is strictly higher, and is rejected with an error otherwise; the
\* first bet of a round is always accepted.
C5_RaiseRule ==
    /\ (Len(game_state) >= 1 /\ game_state[1].action.is_bet) =>
           /\ prev_action # None
           /\ error # Some("InvalidRaise") \/ Len(game_state) > 1
           /\ (Len(game_state) = 1 /\ Len(calls) = 1) =>
                  (error = None /\ pc = "move"
                       /\ prev_action = Some(game_state[1].action))
    /\ \A k \in 2..Len(game_state) :
           game_state[k].action.is_bet =>
               IF k < Len(game_state)
               THEN BetPairIsRaise(k)
               ELSE /\ (error = Some("InvalidRaise")) <=> ~BetPairIsRaise(k)
                    /\ (error = Some("InvalidRaise")) => pc = "raised"
                    /\ prev_action = IF BetPairIsRaise(k)
                                     THEN Some(game_state[k].action)
                                     ELSE Some(game_state[k - 1].action)

\* C5 witness: a raise of the digit that lowers the count has been accepted.
C5_Witness ==
    /\ Len(game_state) = 2
    /\ game_state[1].action = make_bet(Some(2), Some(0))
    /\ game_state[2].action = make_bet(Some(1), Some(7))
    /\ prev_action = Some(game_state[2].action)
    /\ pc = "move"

\* C6: a round whose first move is Exact or Bullshit fails with
\* FirstMoveNotBet (a RuntimeError): it is never resolved, no winner index
\* is returned and no further move is made.
C6_FirstMoveNotBet ==
    /\ (Len(game_state) >= 1 /\ ~game_state[1].action.is_bet) =>
           /\ pc = "raised"
           /\ error = Some("FirstMoveNotBet")
           /\ ExceptionType(Val(error)) = "RuntimeError"
           /\ Len(game_state) = 1
           /\ winner_idx = None
           /\ ended = <<>>
           /\ ret = None
    /\ (error = Some("FirstMoveNotBet")) =>
           (Len(game_state) = 1 /\ ~game_state[1].action.is_bet)

\* C6 witness: among three players, player 2 opens the round with Exact
\* and the round fails.
C6_Witness ==
    /\ n = 3
    /\ Len(game_state) = 1
    /\ game_state[1].idx = 2
    /\ game_state[1].action.is_exact
    /\ pc = "raised"

\* C7: in play_many, the round after a round won by w is opened by player
\* w (0 included); after a tie no first mover is passed on and one is drawn
\* among all players; the sequence returned has one entry per round, each a
\* winner index or -1.
C7_WinnerMovesFirst ==
    /\ (call = "play_many" /\ InRound /\ winner_idxs # <<>>) =>
           LET w == winner_idxs[Len(winner_idxs)]
           IN  IF w # -1
               THEN /\ first_move = Some(w)
                    /\ first_idx \in {None, Some(w)}
                    /\ (pc = "move" /\ calls = <<>>) => gen_pos = w
                    /\ calls # <<>> => calls[1] = w
               ELSE /\ first_move = None
                    /\ first_idx \in {None} \cup {Some(i) : i \in 0..(n - 1)}
                    /\ calls # <<>> => calls[1] = Val(first_idx)
    /\ (call = "play_many") =>
           /\ Len(winner_idxs) <= n_rounds
           /\ \A i \in 1..Len(winner_idxs) : winner_idxs[i] \in -1..(n - 1)
           /\ (pc = "play_many" /\ winner_idxs # <<>>) =>
                  winner_idxs[Len(winner_idxs)] = Val(winner_idx)
           /\ (pc = "returned") =>
                  (ret = Some(winner_idxs) /\ Len(winner_idxs) = n_rounds)

\* C7 witness: the first round was won by player 0 and the second round's
\* first decision call has gone to player 0, the iterator having stood
\* elsewhere.
C7_Witness ==
    /\ n = 3
    /\ call = "play_many"
    /\ winner_idxs = <<0>>
    /\ pc = "move"
    /\ Len(calls) = 1
    /\ calls[1] = 0

\* C8: the k-th logged move of a round (k from 0) is made by player
\* (f + k) mod n, f being the first mover; the decision calls follow the
\* same order, one per logged move, and the next call goes to the player
\* after the last one asked.
C8_RoundRobin ==
    (calls # <<>> \/ pc = "move") =>
        LET f == Val(first_idx)
        IN  /\ \A k \in 1..Len(game_state) :
                  game_state[k].idx = (f + (k - 1)) % n
            /\ \A k \in 1..Len(calls) : calls[k] = (f + (k - 1)) % n
            /\ \A k \in 2..Len(calls) : calls[k] = (calls[k - 1] + 1) % n
            /\ IF error = Some("InvalidClaim")
               THEN Len(calls) = Len(game_state) + 1
               ELSE Len(calls) = Len(game_state)
            /\ pc = "move" => gen_pos = (f + Len(calls)) % n

\* C8 witness: three moves among three players starting at player 1, the
\* order wrapping round to player 0.
C8_Witness ==
    /\ n = 3
    /\ first_idx = Some(1)
    /\ Len(game_state) = 3
    /\ game_state[1].idx = 1
    /\ game_state[2].idx = 2
    /\ game_state[3].idx = 0

\* A round in which a claim could not be built, the first move was not a
\* bet, or a bet did not raise the one before it.
MalformedRound ==
    \/ Len(calls) > Len(game_state)
    \/ (Len(game_state) >= 1 /\ ~game_state[1].action.is_bet)
    \/ \E k \in 2..Len(game_state) :
          game_state[k].action.is_bet /\ ~BetPairIsRaise(k)

\* C9: a round that fails propagates its error to the caller of play or
\* play_many: nothing is returned, no winner is set, no end_game call is
\* made; and a malformed round always fails.
C9_ErrorsPropagate ==
    /\ (pc = "raised") <=> (error # None)
    /\ (pc = "raised") =>
           /\ ret = None
           /\ winner_idx = None
           /\ ended = <<>>
           /\ Val(error) \in {"InvalidClaim", "InvalidRaise",
                              "FirstMoveNotBet"}
    /\ MalformedRound <=> (pc = "raised")

\* C9 witness: in play_many the second round fails on an invalid raise
\* after the first round gave a winner; nothing is returned.
C9_Witness ==
    /\ call = "play_many"
    /\ Len(winner_idxs) = 1
    /\ winner_idxs[1] # -1
    /\ pc = "raised"
    /\ error = Some("InvalidRaise")
    /\ ret = None

\* C10 as stated: get_random_numbers(n) with n above the number of values
\* in the range does not retry for ever: it has failed with
\* InsufficientUniqueNumbers, or it can still take a step that changes its
\* state.
C10_FailsWhenRangeExhausted ==
    (call = "get_random_numbers" /\ gen_n > RangeSize /\ pc # "idle") =>
        \/ pc = "raised" /\ error = Some("InsufficientUniqueNumbers")
        \/ pc = "numbers" /\ ENABLED <<NextGen>>_vars

\* The sum of the ten entries of a digit-count vector.
RECURSIVE SumUpTo(_, _)
SumUpTo(counts, d) ==
    IF d < 0 THEN 0 ELSE counts[d] + SumUpTo(counts, d - 1)

SumOfCounts(counts) == SumUpTo(counts, 9)

\* C11: when get_random_numbers(n) has returned, the list holds exactly n
\* values, pairwise distinct, each in [0, 10^8); so the numbers given to
\* distinct players of a round are distinct.
C11_UniqueNumbers ==
    /\ (pc = "numbers") => Cardinality(gen_set) <= gen_n
    /\ (pc \in {"start", "ff", "move", "notify", "play_ret"}) =>
           /\ Len(numbers) = gen_n
           /\ gen_n = n
           /\ \A i, j \in 1..Len(numbers) :
                  numbers[i] = numbers[j] => i = j
           /\ \A i \in 1..Len(numbers) :
                  0 <= numbers[i] /\ numbers[i] < Pow10(NUM_DIGITS)
           /\ {numbers[i] : i \in 1..Len(numbers)} = gen_set
    /\ \A i, j \in 1..Len(started) :
           /\ started[i].number = numbers[i]
           /\ started[i].number = started[j].number => i = j

\* C11 witness: three players have been given three distinct numbers.
C11_Witness ==
    /\ n = 3
    /\ Len(started) = 3
    /\ Cardinality({started[i].number : i \in 1..3}) = 3

\* C12: the entries of the total digit-count vector of a round sum to
\* n * 8 in every state that holds one; where it has just been computed
\* from the numbers of the round (no move made yet), the entries of each
\* number's vector sum to 8 and every entry of the total is the number of
\* occurrences of its digit in the zero-padded numbers.
C12_CountsSum ==
    (total_counts # <<>>) =>
        /\ SumOfCounts(total_counts) = n * NUM_DIGITS
        /\ \A d \in 0..9 : total_counts[d] >= 0
        /\ (game_state = <<>>) =>
               /\ \A i \in 1..Len(numbers) :
                      SumOfCounts(to_counts(numbers[i])) = NUM_DIGITS
               /\ \A d \in 0..9 : total_counts[d] = Occurrences(numbers, d)

\* C12 witness: the total of three players' numbers, one of them a number
\* that is padded with seven zeros.
C12_Witness ==
    /\ n = 3
    /\ total_counts # <<>>
    /\ \E i \in 1..3 : numbers[i] = 7
    /\ total_counts[0] >= 7
    /\ game_state = <<>>

\* The claim's condition for a construction to succeed.
WellFormed(a) ==
    /\ BoolInt(a.is_exact) + BoolInt(a.is_bullshit) + BoolInt(a.is_bet) = 1
    /\ a.is_bet =>
           /\ a.count # None
           /\ a.digit # None
           /\ Val(a.count) >= 1
           /\ 0 <= Val(a.digit)
           /\ Val(a.digit) <= 9

\* C13: Action(...) fails with an error unless exactly one tag is set and,
\* for a Bet, count and digit are present with count >= 1 and digit in
\* [0, 9]; every other construction succeeds.  So every Bet held as the
\* previous bet of a round has count >= 1 and digit in [0, 9].
C13_ActionValidation ==
    /\ (call = "Action") =>
           LET a == Val(action_args)
           IN  /\ pc \in {"returned", "raised"}
               /\ (pc = "returned") <=> WellFormed(a)
               /\ (pc = "returned") => (ret = Some(a) /\ error = None)
               /\ (pc = "raised") =>
                      /\ ret = None
                      /\ error = Some("InvalidClaim")
                      /\ ExceptionType(Val(error)) = "ValueError"
    /\ (prev_action # None) =>
           /\ Val(prev_action).is_bet
           /\ Val(Val(prev_action).count) >= 1
           /\ Val(Val(prev_action).digit) \in 0..9
    /\ \A k \in 1..Len(game_state) : WellFormed(game_state[k].action)

\* C13 witness: a Bet with count 0 has been refused.
C13_Witness ==
    /\ call = "Action"
    /\ action_args = Some(make_bet(Some(0), Some(7)))
    /\ pc = "raised"

\* C14 as stated: when a bet is rejected as an invalid raise, the move log
\* does not hold the rejected move (it ends with the previous bet, one
\* entry short of the decision calls made) and the previous bet is
\* unchanged.
C14_RejectedBetNotLogged ==
    (error = Some("InvalidRaise")) =>
        /\ Len(game_state) >= 1
        /\ Len(game_state) = Len(calls) - 1
        /\ LastMove = [idx |-> Val(prev_idx), action |-> Val(prev_action)]

\* The move log in a state: empty until the first turn of the round, no
\* entry after a terminal claim, and at resolution one or more bets, each a
\* raise of the one before it, then one terminal claim.
LogShape ==
    /\ (pc \in {"numbers", "start", "ff"}) => game_state = <<>>
    /\ \A k \in 1..(Len(game_state) - 1) : game_state[k].action.is_bet
    /\ (winner_idx # None) =>
           /\ Len(game_state) >= 2
           /\ ~LastMove.action.is_bet
           /\ \A k \in 2..(Len(game_state) - 1) : BetPairIsRaise(k)

\* The move log over a step: unchanged, or one record appended for the one
\* decision call of the turn, or emptied by the start of a new call.
LogStep ==
    \/ game_state' = game_state
    \/ /\ Len(game_state') = Len(game_state) + 1
       /\ SubSeq(game_state', 1, Len(game_state)) = game_state
       /\ Len(calls') = Len(calls) + 1
       /\ pc = "move"
    \/ /\ game_state' = <<>>
       /\ pc \in {"idle", "returned", "raised", "play_many"}
       /\ pc' \in {"numbers", "play_many"}

\* C15: the move log starts empty at round start, only grows by one
\* appended record per turn, and at resolution is one or more bets, each a
\* valid raise of the bet before it, followed by exactly one terminal claim
\* as its last entry.
C15_MoveLog == [](LogShape) /\ [][LogStep]_vars

\* C15 witness: a round resolved by Exact after two bets.
C15_Witness ==
    /\ winner_idx # None
    /\ Len(game_state) = 3
    /\ game_state[1].action.is_bet
    /\ game_state[2].action.is_bet
    /\ game_state[3].action.is_exact

\* C16: in every round the generator is cycled so that the first make_move
\* call goes to the designated first mover, wherever earlier rounds left
\* the iterator; while it is cycled no player is asked to move and nothing
\* is logged.
C16_FastForward ==
    /\ (pc \in {"numbers", "start", "ff"}) =>
           (calls = <<>> /\ game_state = <<>>)
    /\ (pc = "move" /\ calls = <<>>) =>
           /\ Val(first_idx) \in 0..(n - 1)
           /\ gen_pos = Val(first_idx)
    /\ (calls # <<>>) =>
           /\ calls[1] = Val(first_idx)
           /\ first_move # None => calls[1] = Val(first_move)
    /\ (game_state # <<>>) => game_state[1].idx = Val(first_idx)

\* C16 witness: play(first_move=2) among three players has made its first
\* decision call, to player 2.
C16_Witness ==
    /\ n = 3
    /\ call = "play"
    /\ first_move = Some(2)
    /\ calls = <<2>>

\* C17: within play, ensure_valid_raise never raises ActionAfterTerminal:
\* the previous action is absent or a bet in every state, and once a
\* terminal claim has been processed the loop asks for no further move.
C17_NoActionAfterTerminal ==
    /\ error # Some("ActionAfterTerminal")
    /\ (prev_action # None) => Val(prev_action).is_bet
    /\ (pc = "move") =>
           /\ winner_idx = None
           /\ \A k \in 1..Len(game_state) : game_state[k].action.is_bet

\* C17 witness: two bets, the second checked against the first, and then a
\* terminal claim that resolved the round against the second bet.
C17_Witness ==
    /\ Len(game_state) = 3
    /\ game_state[1].action.is_bet
    /\ game_state[2].action.is_bet
    /\ ~game_state[3].action.is_bet
    /\ prev_action = Some(game_state[2].action)
    /\ winner_idx # None
    /\ error = None

\* The start_game calls of the round: one per player, with its own number,
\* its index and the player count.
StartedAll ==
    /\ Len(started) = n
    /\ \A i \in 1..n :
          started[i] = [number |-> numbers[i], player_idx |-> i - 1,
                        n_players |-> n]

\* The end_game calls of the round: one per player, with its own result,
\* the whole log and all the numbers.
EndedAll ==
    /\ Len(ended) = n
    /\ \A i \in 1..n :
          ended[i] = [player_idx |-> i - 1,
                      result |-> Result(Val(winner_idx), i - 1),
                      state |-> game_state,
                      numbers |-> numbers]

NotifyOrder ==
    /\ (pc \in {"numbers", "start"}) => started = <<>>
    /\ (calls # <<>>) => StartedAll
    /\ (pc \in {"numbers", "start", "ff", "move", "raised", "notify"}) =>
           ended = <<>>
    /\ (ended # <<>>) =>
           /\ EndedAll
           /\ winner_idx # None
           /\ TerminalAfterBet
           /\ StartedAll
    /\ (pc = "play_ret" \/ (pc = "returned" /\ call = "play")) =>
           /\ ended # <<>>
           /\ pc = "returned" => ret = winner_idx

\* The notifications of a round are made once: start_game only where none
\* has been made, end_game only after the resolution where none has been
\* made; a new call or a new round clears them.
NotifyStep ==
    /\ (started' # started) =>
           \/ started' = <<>>
           \/ started = <<>> /\ calls = <<>> /\ calls' = <<>>
    /\ (ended' # ended) =>
           \/ ended' = <<>>
           \/ ended = <<>> /\ winner_idx # None /\ calls' = calls
    /\ (calls' # calls /\ calls' # <<>>) =>
           (started' = started /\ started # <<>> /\ ended' = <<>>)

\* C18: every player gets start_game (own number, index, player count) once
\* before any make_move call of the round; after the terminal claim has
\* resolved the round every player gets end_game once (own result, the
\* whole log with the terminal claim, all numbers) before play returns; no
\* end_game is called before the resolution.
C18_NotificationOrder == [](NotifyOrder) /\ [][NotifyStep]_vars

\* C18 witness: play among three players has returned after a resolved
\* round with all three end_game calls made.
C18_Witness ==
    /\ n = 3
    /\ call = "play"
    /\ pc = "returned"
    /\ Len(ended) = 3
    /\ Len(started) = 3
    /\ Len(calls) = 3

\* Every move of the log is a bet, and each bet after the first is a raise
\* of the bet before it.
AllValidRaises ==
    /\ \A k \in 1..Len(game_state) : game_state[k].action.is_bet
    /\ \A k \in 2..Len(game_state) : BetPairIsRaise(k)

\* C19 (as stated): the raise rule admits no cycle, so that a sequence of
\* valid raises never comes back to a bet already made in the round.
C19_NoRaiseCycle ==
    (error = None /\ AllValidRaises) =>
        \A j \in 1..Len(game_state) : \A k \in 1..Len(game_state) :
            (j < k) => game_state[j].action # game_state[k].action

\* C19 (amended): a round is resolved exactly when a terminal claim has
\* been made after at least one bet, and then no further move is asked for;
\* as long as the decisions are valid raises the round stays unresolved and
\* the loop asks the next player, also when a bet of the round comes back.
C19_ResolvedByTerminalClaim ==
    /\ (winner_idx # None) <=> TerminalAfterBet
    /\ TerminalAfterBet =>
           /\ error = None
           /\ pc \in {"notify", "play_ret", "play_many", "returned"}
    /\ (InRound /\ game_state # <<>> /\ error = None /\ AllValidRaises) =>
           /\ winner_idx = None
           /\ pc = "move"
           /\ ended = <<>>

\* C19 witness: three valid raises, the third one the first bet again, and
\* the round still asking for moves.
C19_Witness ==
    /\ Len(game_state) = 3
    /\ AllValidRaises
    /\ game_state[3].action = game_state[1].action
    /\ error = None
    /\ winner_idx = None
    /\ pc = "move"

\* C20: the loop that cycles the generator to the first mover terminates
\* for every first_move supplied, also for one outside [0, n): play does
\* not stay in that loop for ever without asking a player to move.  Stated
\* for n > 1, where every iteration moves the iterator (with one player
\* the iterator has a single position and the loop spins in place).
C20_FastForwardTerminates == (pc = "ff" /\ n > 1) ~> (pc # "ff")

====
